---------------------------- MODULE Spec2Model ----------------------------
(***************************************************************************)
(* A model of jump_diffusion (python-modules/jump_diffusion.py): the Monte *)
(* Carlo simulation of Merton's jump diffusion model.                      *)
(*                                                                         *)
(* The function is modelled statement by statement.  pc is the position in *)
(* the body; "idle" is the caller, between two calls.  The only state that *)
(* outlives a call is rng, the state of numpy's process-wide generator.    *)
(*                                                                         *)
(* Numbers.  Real arithmetic is modelled exactly on a domain where it is   *)
(* closed:                                                                 *)
(*   - a price is base * exp(hexp/2) with integers base and hexp (a cell), *)
(*     or nan.  exp of a non-zero rational is transcendental, so two cells *)
(*     are equal as reals iff they are equal as records;                   *)
(*   - drift, volatility, a, b, the normal draws and Delta_t are integers, *)
(*     Delta_t and the Poisson counts are perfect squares, so that twice   *)
(*     the exponent of a recursion step is an integer;                     *)
(*   - the statistics are polynomials in exp(1/2) with rational            *)
(*     coefficients, square roots of these and multiples of a normal       *)
(*     quantile, kept symbolic (see Numbers below).                        *)
(* Floating-point rounding and overflow are not modelled.                  *)
(***************************************************************************)
EXTENDS Integers, Sequences, FiniteSets, TLC

(***************************************************************************)
(* Bounds of the model.                                                    *)
(***************************************************************************)
\* Largest Nsteps and Nsim a call is made with.
MaxSteps == 2
MaxSim == 2
\* The seeds a call may pass are 0..MaxSeed; seed=None re-seeds from
\* 0..MaxEntropy.
MaxSeed == 1
MaxEntropy == 1
\* Other users of the generator draw while its position is below MaxPos.
MaxPos == 3
\* The measured running time is 0..MaxElapsed hundredths of a millisecond.
MaxElapsed == 2

(***************************************************************************)
(* Cells of the path matrix.                                               *)
(***************************************************************************)
Cell(b, h) == [kind |-> "num", base |-> b, hexp |-> h]
NaN == [kind |-> "nan", base |-> 0, hexp |-> 0]
\* np.zeros: the preallocated 0.0
ZeroCell == Cell(0, 0)

\* An exponent x, held as twice its value, or nan.
Exponent(t) == [kind |-> "num", twice |-> t]
NaNExponent == [kind |-> "nan", twice |-> 0]

Abs(n) == IF n < 0 THEN -n ELSE n

\* np.sqrt on the model's domain: the exact root of a perfect square.
Sqrt(n) == CHOOSE r \in 0..n : r * r = n

\* T/Nsteps (true division), exact because the calls of the model pass a T
\* that is a multiple of Nsteps.
TrueDiv(t, n) == IF n > 0 THEN (IF t >= 0 THEN t \div n ELSE -((-t) \div n))
                 ELSE (IF t >= 0 THEN -(t \div (-n)) ELSE (-t) \div (-n))

(***************************************************************************)
(* numpy's process-wide generator.  A state is a stream (key) and a        *)
(* position in it; the value drawn is a function of the state alone.       *)
(***************************************************************************)
RngState(k, p) == [key |-> k, pos |-> p]

\* One standard normal variate of stream key at position pos, in -2..2.
NormalAt(key, pos) == (((key + 1) * (pos + 2) + pos * pos) % 5) - 2

\* The Poisson counts the model draws for a positive rate.
PoissonCounts == <<0, 1, 4>>

\* One Poisson(lam) variate: a rate of 0 gives 0 and consumes nothing.
PoissonAt(key, pos, lam) ==
    IF lam = 0 THEN 0 ELSE PoissonCounts[((key + 2 * pos) % 3) + 1]

\* A seeding that ignores its argument.
SeededStatesFromEntropy(seed) == {RngState(k, 0) : k \in 0..MaxEntropy}

\* np.random.seed(seed): a given seed fixes the state; None takes it from
\* the operating system's entropy.
SeededStates(seed) ==
    IF seed = <<>> THEN {RngState(k, 0) : k \in 0..MaxEntropy}
    ELSE {RngState(seed[1], 0)}

\* np.random.normal(size=[rows, cols]): filled row by row from the stream.
NormalMatrix(g, rows, cols) ==
    [r \in 0..(rows - 1) |->
        [c \in 0..(cols - 1) |-> NormalAt(g.key, g.pos + r * cols + c)]]

\* np.random.poisson(lam, [rows, cols])
PoissonMatrix(g, lam, rows, cols) ==
    [r \in 0..(rows - 1) |->
        [c \in 0..(cols - 1) |-> PoissonAt(g.key, g.pos + r * cols + c, lam)]]

\* The generator after a matrix of normal variates
AfterNormal(g, rows, cols) == RngState(g.key, g.pos + rows * cols)

\* The generator after a matrix of Poisson variates
AfterPoisson(g, lam, rows, cols) ==
    IF lam = 0 THEN g ELSE RngState(g.key, g.pos + rows * cols)


(***************************************************************************)
(* The arguments of a call.  alpha is held in hundredths (5 is 0.05); seed *)
(* is <<>> for None and <<s>> for the integer s.  X, the strike, is        *)
(* accepted by the function and never read: it is left out.                *)
(***************************************************************************)
NoSeed == <<>>
Seeds == {NoSeed} \cup {<<s>> : s \in 0..MaxSeed}

MakeArgs(S, T, mu, sigma, Lambda, a, b, Nsteps, Nsim, alpha, seed) ==
    [S |-> S, T |-> T, mu |-> mu, sigma |-> sigma, Lambda |-> Lambda,
     a |-> a, b |-> b, Nsteps |-> Nsteps, Nsim |-> Nsim, alpha |-> alpha,
     seed |-> seed]

\* The values of Delta_t = T/Nsteps of the calls that vary it.
StepLengths == {1, 4}

\* Calls with every parameter in its documented range (Delta_t is 1).
ValidArgs ==
    {MakeArgs(S, n, mu, sigma, Lambda, a, b, n, m, 5, seed) :
        S \in {1, 2}, mu \in {0, 1}, sigma \in {0, 1}, Lambda \in {0, 1},
        a \in {-1, 1}, b \in {0, 1},
        n \in 1..MaxSteps, m \in 1..MaxSim, seed \in Seeds}

\* A valid call, and the calls that leave the documented range in one
\* parameter.
BaseArgs(seed) == MakeArgs(1, 1, 0, 1, 1, 1, 1, 1, 1, 5, seed)

InvalidArgs ==
    UNION {{[BaseArgs(seed) EXCEPT !.sigma = -1],
            [BaseArgs(seed) EXCEPT !.b = -1],
            [BaseArgs(seed) EXCEPT !.Lambda = -1],
            [BaseArgs(seed) EXCEPT !.T = 0],
            [BaseArgs(seed) EXCEPT !.T = -1],
            [BaseArgs(seed) EXCEPT !.T = -1, !.Lambda = 0],
            [BaseArgs(seed) EXCEPT !.Nsteps = 0],
            [BaseArgs(seed) EXCEPT !.Nsteps = -1],
            [BaseArgs(seed) EXCEPT !.Nsteps = -2, !.T = 2],
            [BaseArgs(seed) EXCEPT !.Nsim = -1]} : seed \in {NoSeed, <<0>>}}

(***************************************************************************)
(* The theoretical moments, kept as the expressions the code evaluates.    *)
(***************************************************************************)
\* mean_Y = exp(a + 0.5*b**2)
MeanY(a, b) == Cell(1, 2 * a + b * b)

\* variance_Y = exp(2*a + b**2) * (exp(b**2) - 1): scale * (grow - 1)
VarianceY(a, b) ==
    [scale |-> Cell(1, 2 * (2 * a + b * b)), grow |-> Cell(1, 2 * b * b)]

\* M = S * exp(mu*T + Lambda*T*(mean_Y - 1)):
\*     S * exp(drift + jumps * (mean_Y - 1))
TheoreticalM(p, meanY) ==
    [S |-> p.S, drift |-> p.mu * p.T, jumps |-> p.Lambda * p.T,
     mean_Y |-> meanY]

\* V = S**2 * (exp((2*mu + sigma**2)*T + Lambda*T*(variance_Y + mean_Y**2 - 1))
\*             - exp(2*mu*T + 2*Lambda*T*(mean_Y - 1)))
TheoreticalV(p, meanY, varianceY) ==
    [S2 |-> p.S * p.S,
     drift1 |-> (2 * p.mu + p.sigma * p.sigma) * p.T, jumps1 |-> p.Lambda * p.T,
     variance_Y |-> varianceY, mean_Y |-> meanY,
     drift2 |-> 2 * p.mu * p.T, jumps2 |-> 2 * p.Lambda * p.T]

(***************************************************************************)
(* The recursion.                                                          *)
(***************************************************************************)
\* np.zeros([rows, cols])
Zeros(rows, cols) == [r \in 0..(rows - 1) |-> [c \in 0..(cols - 1) |-> ZeroCell]]

\* paths[:,col] = value
SetColumn(paths, col, value) ==
    [r \in DOMAIN paths |-> [paths[r] EXCEPT ![col] = value]]

\* A step whose jump-size term lacks the factor sqrt(n).
StepExponentUnscaled(p, dt, z1, n, z2) ==
    IF dt < 0 THEN NaNExponent
    ELSE Exponent((2 * p.mu - p.sigma * p.sigma) * dt
                  + 2 * p.sigma * Sqrt(dt) * z1
                  + 2 * p.a * n
                  + 2 * Sqrt(p.b * p.b) * z2)

\* The argument of np.exp in one step:
\*   (mu - sigma**2/2)*Delta_t + sigma*sqrt(Delta_t)*z1 + a*n
\*     + sqrt(b**2)*sqrt(n)*z2
\* sqrt of a negative Delta_t is nan, and nan times anything is nan.
StepExponent(p, dt, z1, n, z2) ==
    IF dt < 0 THEN NaNExponent
    ELSE Exponent((2 * p.mu - p.sigma * p.sigma) * dt
                  + 2 * p.sigma * Sqrt(dt) * z1
                  + 2 * p.a * n
                  + 2 * Sqrt(p.b * p.b) * Sqrt(n) * z2)

\* prev * np.exp(x)
TimesExp(prev, x) ==
    IF prev.kind = "nan" \/ x.kind = "nan" THEN NaN
    ELSE IF prev.base = 0 THEN ZeroCell
    ELSE Cell(prev.base, prev.hexp + x.twice)

\* A step that overwrites the column it reads.
StepColumnInPlace(paths, k, p, dt, z1, pois, z2) ==
    [r \in DOMAIN paths |->
        [paths[r] EXCEPT ![k] =
            TimesExp(paths[r][k],
                     StepExponent(p, dt, z1[r][k], pois[r][k], z2[r][k]))]]

\* A step that always starts from the initial price.
StepColumnFromFirst(paths, k, p, dt, z1, pois, z2) ==
    [r \in DOMAIN paths |->
        [paths[r] EXCEPT ![k + 1] =
            TimesExp(paths[r][0],
                     StepExponent(p, dt, z1[r][k], pois[r][k], z2[r][k]))]]

\* simulated_paths[:,k+1] = simulated_paths[:,k] * np.exp(...[:,k]...)
StepColumn(paths, k, p, dt, z1, pois, z2) ==
    [r \in DOMAIN paths |->
        [paths[r] EXCEPT ![k + 1] =
            TimesExp(paths[r][k],
                     StepExponent(p, dt, z1[r][k], pois[r][k], z2[r][k]))]]

(***************************************************************************)
(* Numbers of the statistics.  With x = exp(1/2), a price base*exp(hexp/2) *)
(* is the monomial base * x^hexp, and sums, differences and products of    *)
(* prices are polynomials in x and 1/x with integer coefficients: a set of *)
(* terms [e, c], c # 0, at most one per exponent e.  x is transcendental,  *)
(* so two such polynomials are equal as reals iff they are equal as sets.  *)
(* A quotient [num, den] is a polynomial over a positive integer, in       *)
(* lowest terms.  A statistic is nan, or the real number                   *)
(*      rat + sgn * sqrt(rad) * (ppf(p) if zfac = 1 else 1)                *)
(* with quotients rat and rad >= 0, a rational p in (1/2, 1), sgn in       *)
(* {-1, 0, 1}, and sgn = 0 exactly when the second term is 0; ppf is the   *)
(* quantile function of the standard normal distribution, kept as a        *)
(* symbol.  The skewness and the excess kurtosis are kept as the pair of   *)
(* central moments they are computed from.                                 *)
(***************************************************************************)
RECURSIVE Gcd(_, _)
Gcd(x, y) == IF y = 0 THEN x ELSE Gcd(y, x % y)

RECURSIVE Pow(_, _)
Pow(x, k) == IF k = 0 THEN 1 ELSE x * Pow(x, k - 1)

Sign(n) == IF n > 0 THEN 1 ELSE IF n < 0 THEN -1 ELSE 0

\* Rationals [n, d] in lowest terms, d > 0
Rat(n, d) ==
    LET g == Gcd(Abs(n), Abs(d))
    IN  [n |-> Sign(d) * (n \div g), d |-> Abs(d) \div g]
RZero == Rat(0, 1)
RInt(n) == Rat(n, 1)
RSub(x, y) == Rat(x.n * y.d - y.n * x.d, x.d * y.d)
RLess(x, y) == x.n * y.d < y.n * x.d

\* Polynomials in exp(1/2)
Term(e, c) == [e |-> e, c |-> c]
PConst(n) == IF n = 0 THEN {} ELSE {Term(0, n)}
PCoef(p, e) ==
    IF \E t \in p : t.e = e THEN (CHOOSE t \in p : t.e = e).c ELSE 0
PAdd(p, q) ==
    LET exps == {t.e : t \in p \cup q}
    IN  {Term(e, PCoef(p, e) + PCoef(q, e)) :
            e \in {f \in exps : PCoef(p, f) + PCoef(q, f) # 0}}
PScale(p, k) == IF k = 0 THEN {} ELSE {Term(t.e, k * t.c) : t \in p}
PTimesTerm(p, t) == {Term(s.e + t.e, s.c * t.c) : s \in p}

RECURSIVE PMul(_, _)
PMul(p, q) ==
    IF p = {} THEN {}
    ELSE LET t == CHOOSE s \in p : TRUE
         IN  PAdd(PTimesTerm(q, t), PMul(p \ {t}, q))

RECURSIVE PPow(_, _)
PPow(p, k) == IF k = 0 THEN PConst(1) ELSE PMul(p, PPow(p, k - 1))

\* The greatest common divisor of the coefficients
RECURSIVE PContent(_)
PContent(p) ==
    IF p = {} THEN 0
    ELSE LET t == CHOOSE s \in p : TRUE
         IN  Gcd(Abs(t.c), PContent(p \ {t}))

RECURSIVE PSum(_, _)
PSum(f, dom) ==
    IF dom = {} THEN {}
    ELSE LET r == CHOOSE s \in dom : TRUE IN PAdd(f[r], PSum(f, dom \ {r}))

\* Quotients p / d, d # 0
Quot(p, d) ==
    IF p = {} THEN [num |-> {}, den |-> 1]
    ELSE LET g == Gcd(PContent(p), Abs(d))
         IN  [num |-> {Term(t.e, Sign(d) * (t.c \div g)) : t \in p},
              den |-> Abs(d) \div g]
QZero == Quot({}, 1)
QInt(n) == Quot(PConst(n), 1)
QSub(x, y) ==
    Quot(PAdd(PScale(x.num, y.den), PScale(y.num, -x.den)), x.den * y.den)
\* x * r for a rational r
QScale(x, r) == Quot(PScale(x.num, r.n), x.den * r.d)
\* x is a rational number, and its value
IsRational(x) == \A t \in x.num : t.e = 0
RationalOf(x) == Rat(PCoef(x.num, 0), x.den)

Stat(rat, sgn, rad, zfac, p) ==
    [kind |-> "num", rat |-> rat, sgn |-> sgn, rad |-> rad, zfac |-> zfac,
     p |-> p]
StatNaN == [Stat(QZero, 0, QZero, 0, RZero) EXCEPT !.kind = "nan"]
StatExact(q) == Stat(q, 0, QZero, 0, RZero)

\* The result v of an arithmetic operation on x and y: nan if either is.
Propagate(x, y, v) ==
    IF x.kind = "nan" \/ y.kind = "nan" THEN StatNaN ELSE v

\* np.sqrt of a quotient: of Nsim, or of a variance, which is not negative
StatSqrt(x) ==
    Propagate(x, x,
        IF IsRational(x.rat) /\ RationalOf(x.rat).n < 0 THEN StatNaN
        ELSE Stat(QZero, IF x.rat = QZero THEN 0 ELSE 1, x.rat, 0, RZero))

\* x / y for a square root x of a quotient and the square root y of a
\* positive rational
StatDiv(x, y) ==
    Propagate(x, y,
        LET r == RationalOf(y.rad)
        IN  Stat(QZero, x.sgn, QScale(x.rad, Rat(r.d, r.n)), 0, RZero))

\* 1 - 0.5*alpha, alpha in hundredths
PpfArgument(alpha) == Rat(200 - alpha, 200)

\* x * stats.norm.ppf(p) for a square root x of a quotient and 0 < p < 1:
\* ppf(1/2) = 0 and ppf(p) = -ppf(1 - p).
StatTimesPpf(x, p) ==
    LET half == Rat(1, 2)
        s == IF p = half THEN 0 ELSE IF RLess(half, p) THEN x.sgn ELSE -x.sgn
        q == IF RLess(half, p) THEN p ELSE RSub(RInt(1), p)
    IN  Propagate(x, x,
            IF s = 0 THEN StatExact(QZero) ELSE Stat(QZero, s, x.rad, 1, q))

\* m + h and m - h for a quotient m and an h with no quotient part
StatPlus(m, h) == Propagate(m, h, [h EXCEPT !.rat = m.rat])
StatMinus(m, h) == Propagate(m, h, [h EXCEPT !.rat = m.rat, !.sgn = -h.sgn])

(***************************************************************************)
(* The sample statistics of the terminal prices.                           *)
(***************************************************************************)
\* simulated_paths[:,-1]
LastColumn(paths, cols) == [r \in DOMAIN paths |-> paths[r][cols - 1]]

\* The k-th central moment of the prices xs: mean((x - mean(x))**k)
CentralMoment(xs, k) ==
    LET n == Cardinality(DOMAIN xs)
        total == PSum(xs, DOMAIN xs)
        dev == [r \in DOMAIN xs |->
                   PPow(PAdd(PScale(xs[r], n), PScale(total, -1)), k)]
    IN  Quot(PSum(dev, DOMAIN xs), Pow(n, k + 1))

\* The statistic v of the prices fp: nan if a price is.
OfPrices(fp, v) ==
    IF \E r \in DOMAIN fp : fp[r].kind = "nan" THEN StatNaN ELSE v

\* The prices as polynomials
Values(fp) == [r \in DOMAIN fp |-> PScale({Term(fp[r].hexp, 1)}, fp[r].base)]

\* np.mean
Mean(fp) ==
    OfPrices(fp, StatExact(Quot(PSum(Values(fp), DOMAIN fp),
                                Cardinality(DOMAIN fp))))

\* The sample variance (ddof = 1), nan for a single price.
VarSample(fp) ==
    LET n == Cardinality(DOMAIN fp)
    IN  OfPrices(fp,
            IF n = 1 THEN StatNaN
            ELSE StatExact(QScale(CentralMoment(Values(fp), 2),
                                  Rat(n, n - 1))))

\* np.var: the population variance (ddof = 0)
Var(fp) == OfPrices(fp, StatExact(CentralMoment(Values(fp), 2)))

\* np.std: the square root of np.var
Std(fp) == StatSqrt(Var(fp))

\* scipy.stats.skew (bias=True): m3 / m2**1.5, kept as rat = m3 and
\* rad = m2.  For constant data scipy gives 0.0 (releases before 1.9) or
\* nan, the choice being `constant`.
Skew(fp, constant) ==
    LET m2 == CentralMoment(Values(fp), 2)
        m3 == CentralMoment(Values(fp), 3)
    IN  OfPrices(fp,
            IF m2 = QZero THEN constant
            ELSE [Stat(m3, 0, m2, 0, RZero) EXCEPT !.kind = "m3/m2**1.5"])

\* scipy.stats.kurtosis (fisher=True, bias=True): m4 / m2**2 - 3, kept as
\* rat = m4 and rad = m2.  For constant data scipy gives -3.0 (releases
\* before 1.9) or nan.
Kurtosis(fp, constant) ==
    LET m2 == CentralMoment(Values(fp), 2)
        m4 == CentralMoment(Values(fp), 4)
    IN  OfPrices(fp,
            IF m2 = QZero THEN constant
            ELSE [Stat(m4, 0, m2, 0, RZero) EXCEPT !.kind = "m4/m2**2-3"])

\* What scipy returns for the skewness and the excess kurtosis of constant
\* data, by release.
ConstantData ==
    {[skew |-> StatExact(QZero), kurt |-> StatExact(QInt(-3))],
     [skew |-> StatNaN, kurt |-> StatNaN]}

\* mean - std/np.sqrt(Nsim)*stats.norm.ppf(1 - 0.5*alpha)
CiLow(mean, std, nsim, alpha) ==
    StatMinus(mean,
              StatTimesPpf(StatDiv(std, StatSqrt(StatExact(QInt(nsim)))),
                           PpfArgument(alpha)))

\* mean + std/np.sqrt(Nsim)*stats.norm.ppf(1 - 0.5*alpha)
CiHigh(mean, std, nsim, alpha) ==
    StatPlus(mean,
             StatTimesPpf(StatDiv(std, StatSqrt(StatExact(QInt(nsim)))),
                          PpfArgument(alpha)))


(***************************************************************************)
(* The state.                                                              *)
(***************************************************************************)
VARIABLES
    pc,               \* the statement a call is at; "idle" between calls
    args,             \* the arguments of the call
    rng,              \* np.random's process-wide state
    assigned,         \* the local variables the call's statements have
                      \* bound so far (the names of the imported modules,
                      \* bound on entry, are not counted)
    raised,           \* the exception that ended the call, "" if none
    Delta_t, mean_Y, variance_Y, M, V,
    simulated_paths, Z_1, Z_2, Poisson,
    i,                \* the next value of the loop variable
    final_prices, mean_jump, var_jump, std_jump, skew_jump, kurt_jump,
    ci_low, ci_high,
    printed,          \* the lines the call wrote to standard output
    plotted,          \* the series the call handed to ax.plot, in order
    result,           \* the value the call returned
    writes,           \* per column of simulated_paths, the assignments to it
    draws,            \* the matrices drawn from the generator, in order
    snap,             \* the caller's copy of the generator state, if taken
    memo,             \* the path matrix of an earlier call the caller kept
    Z_2b, shadow_paths \* a second jump-size matrix and the paths it gives

frame == <<Delta_t, mean_Y, variance_Y, M, V, simulated_paths, Z_1, Z_2,
           Poisson, i, final_prices, mean_jump, var_jump, std_jump,
           skew_jump, kurt_jump, ci_low, ci_high>>
output == <<printed, plotted, result>>
caller == <<snap, memo>>
shadow == <<Z_2b, shadow_paths>>
vars == <<pc, args, rng, assigned, raised, frame, output, writes, draws,
          caller, shadow>>

\* The value of a name that is not bound, and Python's None.
Unbound == <<>>
None == <<>>

\* A frame with no local bound.
EmptyFrame ==
    /\ Delta_t' = Unbound /\ mean_Y' = Unbound /\ variance_Y' = Unbound
    /\ M' = Unbound /\ V' = Unbound /\ simulated_paths' = Unbound
    /\ Z_1' = Unbound /\ Z_2' = Unbound /\ Poisson' = Unbound /\ i' = 0
    /\ final_prices' = Unbound /\ mean_jump' = Unbound /\ var_jump' = Unbound
    /\ std_jump' = Unbound /\ skew_jump' = Unbound /\ kurt_jump' = Unbound
    /\ ci_low' = Unbound /\ ci_high' = Unbound

NoArgs == MakeArgs(0, 0, 0, 0, 0, 0, 0, 0, 0, 0, NoSeed)

\* The process starts with the generator seeded from entropy, and no call.
Init ==
    /\ pc = "idle" /\ args = NoArgs /\ assigned = {} /\ raised = ""
    /\ rng \in SeededStates(NoSeed)
    /\ Delta_t = Unbound /\ mean_Y = Unbound /\ variance_Y = Unbound
    /\ M = Unbound /\ V = Unbound /\ simulated_paths = Unbound
    /\ Z_1 = Unbound /\ Z_2 = Unbound /\ Poisson = Unbound /\ i = 0
    /\ final_prices = Unbound /\ mean_jump = Unbound /\ var_jump = Unbound
    /\ std_jump = Unbound /\ skew_jump = Unbound /\ kurt_jump = Unbound
    /\ ci_low = Unbound /\ ci_high = Unbound
    /\ printed = <<>> /\ plotted = <<>> /\ result = None
    /\ writes = <<>> /\ draws = <<>>
    /\ snap = {} /\ memo = {}
    /\ Z_2b = Unbound /\ shadow_paths = Unbound

(***************************************************************************)
(* The call and its statements, in the order of the source.                *)
(***************************************************************************)
\* jump_diffusion(**p): a fresh frame
Enter(p) ==
    /\ pc = "idle"
    /\ pc' = "seed" /\ args' = p /\ assigned' = {} /\ raised' = ""
    /\ EmptyFrame
    /\ printed' = <<>> /\ plotted' = <<>> /\ result' = None
    /\ writes' = <<>> /\ draws' = <<>>
    /\ UNCHANGED <<rng, caller, shadow>>

\* A statement raises: the call ends there.
Raise(name) ==
    /\ pc' = "raised" /\ raised' = name
    /\ UNCHANGED <<args, rng, assigned, frame, output, writes, draws, caller,
                   shadow>>

\* np.random.seed(seed), then tic = time.time(): the generator is seeded and
\* the clock is read.  The reading itself is not kept: only the difference
\* toc - tic is used, and Toc chooses it.
SetSeed ==
    /\ pc = "seed"
    /\ rng' \in SeededStates(args.seed)
    /\ assigned' = assigned \cup {"tic"}
    /\ pc' = "Delta_t"
    /\ UNCHANGED <<args, raised, frame, output, writes, draws, caller,
                   shadow>>

\* Delta_t = T/Nsteps
TimeStep ==
    /\ pc = "Delta_t"
    /\ IF args.Nsteps = 0 THEN Raise("ZeroDivisionError")
       ELSE /\ Delta_t' = TrueDiv(args.T, args.Nsteps)
            /\ assigned' = assigned \cup {"Delta_t"}
            /\ pc' = "moments"
            /\ UNCHANGED <<args, rng, raised, mean_Y, variance_Y, M, V,
                           simulated_paths, Z_1, Z_2, Poisson, i,
                           final_prices, mean_jump, var_jump, std_jump,
                           skew_jump, kurt_jump, ci_low, ci_high, output,
                           writes, draws, caller, shadow>>

\* mean_Y, variance_Y, M, V
Moments ==
    /\ pc = "moments"
    /\ mean_Y' = MeanY(args.a, args.b)
    /\ variance_Y' = VarianceY(args.a, args.b)
    /\ M' = TheoreticalM(args, mean_Y')
    /\ V' = TheoreticalV(args, mean_Y', variance_Y')
    /\ assigned' = assigned \cup {"mean_Y", "variance_Y", "M", "V"}
    /\ pc' = "zeros"
    /\ UNCHANGED <<args, rng, raised, Delta_t, simulated_paths, Z_1, Z_2,
                   Poisson, i, final_prices, mean_jump, var_jump, std_jump,
                   skew_jump, kurt_jump, ci_low, ci_high, output, writes,
                   draws, caller, shadow>>

\* simulated_paths = np.zeros([Nsim, Nsteps+1])
Allocate ==
    /\ pc = "zeros"
    /\ IF args.Nsim < 0 \/ args.Nsteps + 1 < 0 THEN Raise("ValueError")
       ELSE /\ simulated_paths' = Zeros(args.Nsim, args.Nsteps + 1)
            /\ writes' = [c \in 0..args.Nsteps |-> 0]
            /\ assigned' = assigned \cup {"simulated_paths"}
            /\ pc' = "column_0"
            /\ UNCHANGED <<args, rng, raised, Delta_t, mean_Y, variance_Y, M,
                           V, Z_1, Z_2, Poisson, i, final_prices, mean_jump,
                           var_jump, std_jump, skew_jump, kurt_jump, ci_low,
                           ci_high, output, draws, caller, shadow>>

\* simulated_paths[:,0] = S
InitialColumn ==
    /\ pc = "column_0"
    /\ IF args.Nsteps + 1 = 0 THEN Raise("IndexError")
       ELSE /\ simulated_paths' = SetColumn(simulated_paths, 0, Cell(args.S, 0))
            /\ writes' = [writes EXCEPT ![0] = @ + 1]
            /\ pc' = "Z_1"
            /\ UNCHANGED <<args, rng, assigned, raised, Delta_t, mean_Y,
                           variance_Y, M, V, Z_1, Z_2, Poisson, i,
                           final_prices, mean_jump, var_jump, std_jump,
                           skew_jump, kurt_jump, ci_low, ci_high, output,
                           draws, caller, shadow>>

\* Z_1 = np.random.normal(size=[Nsim, Nsteps])
DrawZ1 ==
    /\ pc = "Z_1"
    /\ Z_1' = NormalMatrix(rng, args.Nsim, args.Nsteps)
    /\ rng' = AfterNormal(rng, args.Nsim, args.Nsteps)
    /\ draws' = Append(draws, "Z_1")
    /\ assigned' = assigned \cup {"Z_1"}
    /\ pc' = "Z_2"
    /\ UNCHANGED <<args, raised, Delta_t, mean_Y, variance_Y, M, V,
                   simulated_paths, Z_2, Poisson, i, final_prices, mean_jump,
                   var_jump, std_jump, skew_jump, kurt_jump, ci_low, ci_high,
                   output, writes, caller, shadow>>

\* Z_2 = np.random.normal(size=[Nsim, Nsteps])
DrawZ2 ==
    /\ pc = "Z_2"
    /\ Z_2' = NormalMatrix(rng, args.Nsim, args.Nsteps)
    /\ rng' = AfterNormal(rng, args.Nsim, args.Nsteps)
    /\ draws' = Append(draws, "Z_2")
    /\ assigned' = assigned \cup {"Z_2"}
    /\ pc' = "Poisson"
    /\ UNCHANGED <<args, raised, Delta_t, mean_Y, variance_Y, M, V,
                   simulated_paths, Z_1, Poisson, i, final_prices, mean_jump,
                   var_jump, std_jump, skew_jump, kurt_jump, ci_low, ci_high,
                   output, writes, caller, shadow>>

\* A rate that adds where it should multiply.
PoissonRateSum(p, dt) == p.Lambda + dt

\* The rate of the jump counts of one step: Lambda*Delta_t
PoissonRate(p, dt) == p.Lambda * dt

\* Poisson = np.random.poisson(Lambda*Delta_t, [Nsim, Nsteps]); a negative
\* rate is a ValueError.  Then the loop starts: for i in range(Nsteps).
DrawPoissonBody ==
    /\ pc = "Poisson"
    /\ IF PoissonRate(args, Delta_t) < 0
       THEN /\ pc' = "raised" /\ raised' = "ValueError"
            /\ UNCHANGED <<args, rng, assigned, frame, output, writes, draws,
                           caller>>
       ELSE /\ Poisson' = PoissonMatrix(rng, PoissonRate(args, Delta_t),
                                        args.Nsim, args.Nsteps)
            /\ rng' = AfterPoisson(rng, PoissonRate(args, Delta_t),
                                   args.Nsim, args.Nsteps)
            /\ draws' = Append(draws, "Poisson")
            /\ assigned' = assigned \cup {"Poisson"}
            /\ i' = 0
            /\ pc' = "for"
            /\ UNCHANGED <<args, raised, Delta_t, mean_Y, variance_Y, M, V,
                           simulated_paths, Z_1, Z_2, final_prices, mean_jump,
                           var_jump, std_jump, skew_jump, kurt_jump, ci_low,
                           ci_high, output, writes, caller>>

DrawPoisson == DrawPoissonBody /\ UNCHANGED shadow

\* One pass of the loop body: column i+1 from column i.
LoopBody ==
    /\ pc = "for"
    /\ i < args.Nsteps
    /\ simulated_paths' = StepColumn(simulated_paths, i, args, Delta_t,
                                     Z_1, Poisson, Z_2)
    /\ writes' = [writes EXCEPT ![i + 1] = @ + 1]
    /\ i' = i + 1
    /\ assigned' = assigned \cup {"i"}
    /\ UNCHANGED <<pc, args, rng, raised, Delta_t, mean_Y, variance_Y, M, V,
                   Z_1, Z_2, Poisson, final_prices, mean_jump, var_jump,
                   std_jump, skew_jump, kurt_jump, ci_low, ci_high, output,
                   draws, caller>>

Loop == LoopBody /\ UNCHANGED shadow

\* range(Nsteps) is exhausted.
LoopExit ==
    /\ pc = "for"
    /\ i >= args.Nsteps
    /\ pc' = "statistics"
    /\ UNCHANGED <<args, rng, assigned, raised, frame, output, writes, draws,
                   caller, shadow>>


\* final_prices and its mean, variance, standard deviation, skewness and
\* excess kurtosis
Statistics ==
    /\ pc = "statistics"
    /\ final_prices' = LastColumn(simulated_paths, args.Nsteps + 1)
    /\ mean_jump' = Mean(final_prices')
    /\ var_jump' = Var(final_prices')
    /\ std_jump' = Std(final_prices')
    /\ \E constant \in ConstantData :
          /\ skew_jump' = Skew(final_prices', constant.skew)
          /\ kurt_jump' = Kurtosis(final_prices', constant.kurt)
    /\ assigned' = assigned \cup {"final_prices", "mean_jump", "var_jump",
                                  "std_jump", "skew_jump", "kurt_jump"}
    /\ pc' = "interval"
    /\ UNCHANGED <<args, rng, raised, Delta_t, mean_Y, variance_Y, M, V,
                   simulated_paths, Z_1, Z_2, Poisson, i, ci_low, ci_high,
                   output, writes, draws, caller, shadow>>

\* ci_low and ci_high
ConfidenceInterval ==
    /\ pc = "interval"
    /\ ci_low' = CiLow(mean_jump, std_jump, args.Nsim, args.alpha)
    /\ ci_high' = CiHigh(mean_jump, std_jump, args.Nsim, args.alpha)
    /\ assigned' = assigned \cup {"ci_low", "ci_high"}
    /\ pc' = "print"
    /\ UNCHANGED <<args, rng, raised, Delta_t, mean_Y, variance_Y, M, V,
                   simulated_paths, Z_1, Z_2, Poisson, i, final_prices,
                   mean_jump, var_jump, std_jump, skew_jump, kurt_jump,
                   output, writes, draws, caller, shadow>>

\* One printed line: its label, the local it shows and the value as
\* formatted ('{:.4f}' keeps `digits` decimals).
Line(label, name, value, digits) ==
    [label |-> label, name |-> name,
     text |-> [value |-> value, digits |-> digits]]

\* The statistics block written to standard output
StatisticsLines ==
    << Line("Mean", "mean_jump", mean_jump, 4),
       Line("Variance", "var_jump", var_jump, 4),
       Line("Standard deviation", "std_jump", std_jump, 4),
       Line("Skewness", "skew_jump", skew_jump, 4),
       Line("Excess kurtosis", "kurt_jump", kurt_jump, 4),
       Line("Alpha", "alpha", args.alpha, 2),
       Line("Lower bound", "ci_low", ci_low, 4),
       Line("Upper bound", "ci_high", ci_high, 4) >>

PrintStatistics ==
    /\ pc = "print"
    /\ printed' = printed \o StatisticsLines
    /\ pc' = "plot"
    /\ UNCHANGED <<args, rng, assigned, raised, frame, plotted, result,
                   writes, draws, caller, shadow>>

\* simulated_paths.transpose()
Transpose(paths, cols) ==
    [c \in 0..(cols - 1) |-> [r \in DOMAIN paths |-> paths[r][c]]]

\* t = np.linspace(0, T, Nsteps+1) * Nsteps, and ax.plot(t, paths.T)
Plot ==
    /\ pc = "plot"
    /\ plotted' = Append(plotted,
          [name |-> "simulated_paths",
           t |-> [k \in 0..args.Nsteps |-> k * Delta_t * args.Nsteps],
           series |-> Transpose(simulated_paths, args.Nsteps + 1)])
    /\ assigned' = assigned \cup {"ax", "t", "jump_diffusion"}
    /\ pc' = "toc"
    /\ UNCHANGED <<args, rng, raised, frame, printed, result, writes, draws,
                   caller, shadow>>

\* elapsed_time*1000 = (toc - tic)*1000, in hundredths of a millisecond as
\* '{:.2f}' shows it: what the clock measured, any value a run can take.
ElapsedTimes == 0..MaxElapsed

\* toc = time.time(), elapsed_time = toc - tic; the running time is printed
\* and the body ends: the call returns None.
Toc ==
    /\ pc = "toc"
    /\ \E elapsed \in ElapsedTimes :
          printed' = Append(printed,
                            Line("Total running time", "elapsed_time",
                                 elapsed, 2))
    /\ result' = None
    /\ assigned' = assigned \cup {"toc", "elapsed_time"}
    /\ pc' = "returned"
    /\ UNCHANGED <<args, rng, raised, frame, plotted, writes, draws, caller,
                   shadow>>

\* Back in the caller: the frame is gone, the generator is as the call left
\* it.
Leave ==
    /\ pc' = "idle" /\ args' = NoArgs /\ assigned' = {} /\ raised' = ""
    /\ EmptyFrame
    /\ printed' = <<>> /\ plotted' = <<>> /\ result' = None
    /\ writes' = <<>> /\ draws' = <<>>
    /\ snap' = {}
    /\ Z_2b' = Unbound /\ shadow_paths' = Unbound
    /\ UNCHANGED rng

Return == pc = "returned" /\ Leave /\ UNCHANGED memo

\* The exception reaches the caller.
Unwind == pc = "raised" /\ Leave /\ UNCHANGED memo

(***************************************************************************)
(* The caller, between calls.                                              *)
(***************************************************************************)
\* Other code of the process draws from the generator,
OtherDraw ==
    /\ pc = "idle"
    /\ rng.pos < MaxPos
    /\ rng' = RngState(rng.key, rng.pos + 1)
    /\ snap' = {}
    /\ UNCHANGED <<pc, args, assigned, raised, frame, output, writes, draws,
                   memo, shadow>>

\* or seeds it.
OtherSeed ==
    /\ pc = "idle"
    /\ \E seed \in Seeds : rng' \in SeededStates(seed)
    /\ rng' # rng
    /\ snap' = {}
    /\ UNCHANGED <<pc, args, assigned, raised, frame, output, writes, draws,
                   memo, shadow>>

\* The caller reads the generator state (np.random.get_state()) just
\* before a call,
Snapshot ==
    /\ pc = "idle"
    /\ snap = {}
    /\ snap' = {rng}
    /\ UNCHANGED <<pc, args, rng, assigned, raised, frame, output, writes,
                   draws, memo, shadow>>

\* and, when a seeded call returns, may keep what it plotted: the path
\* matrix.
Remember ==
    /\ pc = "returned"
    /\ memo = {}
    /\ args.seed # NoSeed
    /\ memo' = {[args |-> args, paths |-> simulated_paths]}
    /\ Leave

(***************************************************************************)
(* The program: any sequence of calls, valid or not, with other uses of    *)
(* the generator between them.                                             *)
(***************************************************************************)
Call == \E p \in ValidArgs \cup InvalidArgs : Enter(p)

Next ==
    \/ Call \/ SetSeed \/ TimeStep \/ Moments \/ Allocate \/ InitialColumn
    \/ DrawZ1 \/ DrawZ2 \/ DrawPoisson \/ Loop \/ LoopExit \/ Statistics
    \/ ConfidenceInterval \/ PrintStatistics \/ Plot \/ Toc \/ Return
    \/ Unwind \/ OtherDraw \/ OtherSeed

Spec == Init /\ [][Next]_vars


(***************************************************************************)
(* Repeated calls observed by a caller that keeps the path matrix of one   *)
(* seeded call, to compare later calls with it.                            *)
(***************************************************************************)
DetArgs ==
    {MakeArgs(1, n, 1, 1, 1, 1, 1, n, m, 5, seed) :
        n \in 1..MaxSteps, m \in 1..MaxSim, seed \in Seeds}

CallDet == \E p \in DetArgs : Enter(p)

NextDet ==
    \/ CallDet \/ SetSeed \/ TimeStep \/ Moments \/ Allocate \/ InitialColumn
    \/ DrawZ1 \/ DrawZ2 \/ DrawPoisson \/ Loop \/ LoopExit \/ Statistics
    \/ ConfidenceInterval \/ PrintStatistics \/ Plot \/ Toc \/ Return
    \/ OtherDraw \/ OtherSeed \/ Snapshot \/ Remember

SpecDet == Init /\ [][NextDet]_vars

(***************************************************************************)
(* Calls with no drift, no diffusion and no jumps, among them the example  *)
(* of section 8 of the specification: S=1, Nsteps=10, Nsim=5, seed=42.     *)
(***************************************************************************)
ZeroArgs ==
    {MakeArgs(S, n * d, 0, 0, 0, a, b, n, m, 5, seed) :
        S \in {1, 2}, d \in StepLengths, a \in {-1, 0, 1}, b \in {0, 1},
        n \in (1..MaxSteps) \cup {10}, m \in (1..MaxSim) \cup {5},
        seed \in {NoSeed, <<42>>}}

CallZero == \E p \in ZeroArgs : Enter(p)

NextZero ==
    \/ CallZero \/ SetSeed \/ TimeStep \/ Moments \/ Allocate
    \/ InitialColumn \/ DrawZ1 \/ DrawZ2 \/ DrawPoisson \/ Loop \/ LoopExit
    \/ Statistics \/ ConfidenceInterval \/ PrintStatistics \/ Plot \/ Toc
    \/ Return

SpecZero == Init /\ [][NextZero]_vars

(***************************************************************************)
(* Calls whose recursion is run a second time beside itself, with a        *)
(* jump-size matrix Z_2b that differs from Z_2 only in cells where Poisson *)
(* is 0, or anywhere when b = 0.  Z_2b and shadow_paths are not variables  *)
(* of the program: they are fixed when the last matrix is drawn and        *)
(* dropped when the call ends.                                             *)
(***************************************************************************)
RecArgs ==
    {MakeArgs(S, n * d, mu, sigma, 1, a, b, n, m, 5, NoSeed) :
        S \in {1, 2}, d \in StepLengths, mu \in {0, 1}, sigma \in {0, 1},
        a \in {0, 1}, b \in {0, 1}, n \in 1..MaxSteps, m \in 1..MaxSim}

\* z2 with the cells the jump term cannot see replaced by those of other
OtherJumpSizes(p, pois, z2, other) ==
    [r \in DOMAIN z2 |->
        [c \in DOMAIN z2[r] |->
            IF pois[r][c] = 0 \/ p.b = 0 THEN other[r][c] ELSE z2[r][c]]]

CallRec == \E p \in RecArgs : Enter(p)

\* Poisson is drawn, and the second jump-size matrix is chosen.
DrawPoissonPair ==
    /\ DrawPoissonBody
    /\ \E k \in 0..MaxEntropy :
          Z_2b' = OtherJumpSizes(args, Poisson', Z_2,
                     NormalMatrix(RngState(k, 2), args.Nsim, args.Nsteps))
    /\ shadow_paths' = simulated_paths

\* One pass of the loop body, on both path matrices.
LoopPair ==
    /\ LoopBody
    /\ shadow_paths' = StepColumn(shadow_paths, i, args, Delta_t,
                                  Z_1, Poisson, Z_2b)
    /\ UNCHANGED Z_2b

NextRec ==
    \/ CallRec \/ SetSeed \/ TimeStep \/ Moments \/ Allocate \/ InitialColumn
    \/ DrawZ1 \/ DrawZ2 \/ DrawPoissonPair \/ LoopPair \/ LoopExit
    \/ Statistics \/ ConfidenceInterval \/ PrintStatistics \/ Plot \/ Toc
    \/ Return

SpecRec == Init /\ [][NextRec]_vars

(***************************************************************************)
(* Calls of one step with diffusion and jumps, for every Nsim and several  *)
(* alpha: the terminal prices differ from path to path.                    *)
(***************************************************************************)
CIArgs ==
    {MakeArgs(S, 1, mu, 1, 1, 1, 1, 1, m, alpha, NoSeed) :
        S \in {1, 2}, mu \in {0, 1}, m \in 1..(MaxSim + 1),
        alpha \in {1, 5, 50}}

CallCI == \E p \in CIArgs : Enter(p)

NextCI ==
    \/ CallCI \/ SetSeed \/ TimeStep \/ Moments \/ Allocate \/ InitialColumn
    \/ DrawZ1 \/ DrawZ2 \/ DrawPoisson \/ Loop \/ LoopExit \/ Statistics
    \/ ConfidenceInterval \/ PrintStatistics \/ Plot \/ Toc \/ Return

SpecCI == Init /\ [][NextCI]_vars


(***************************************************************************)
(* Properties.                                                             *)
(***************************************************************************)
\* The parameter ranges of the specification: T, Nsteps and Nsim positive,
\* sigma, Lambda and b not negative.
IsValid(p) ==
    /\ p.T > 0 /\ p.Nsteps > 0 /\ p.Nsim > 0
    /\ p.sigma >= 0 /\ p.Lambda >= 0 /\ p.b >= 0

\* The statements after simulated_paths[:,0] = S.
AfterColumn0 ==
    \/ pc \in {"Z_1", "Z_2", "Poisson", "for", "statistics", "interval",
               "print", "plot", "toc", "returned"}
    \/ pc = "raised" /\ "Z_1" \in assigned

\* The statements after the loop.
AfterLoop == pc \in {"statistics", "interval", "print", "plot", "toc",
                     "returned"}

\* C1: once column 0 of the path matrix is initialised, it holds the
\* initial price S in every row, and it stays so through every recursion
\* step and to the end of the call: column 0 is assigned exactly once.
C1_ColumnZeroIsS ==
    AfterColumn0 =>
        /\ \A r \in DOMAIN simulated_paths :
              simulated_paths[r][0] = Cell(args.S, 0)
        /\ writes[0] = 1

\* C1's case: a valid call has finished a recursion of two steps that moved
\* the price away from S = 2.
C1_Witness ==
    /\ pc = "returned" /\ IsValid(args) /\ args.S = 2 /\ args.Nsteps = 2
    /\ \E r \in DOMAIN simulated_paths :
          /\ simulated_paths[r][1] # Cell(2, 0)
          /\ simulated_paths[r][2] # Cell(2, 0)

\* C3: a call with a non-positive T, Nsteps or Nsim, or a negative sigma,
\* Lambda or b, ends by raising, and it has then computed nothing: no local
\* but the timer's start is bound (no time step, no theoretical moment, no
\* path matrix), nothing has been drawn, nothing printed or plotted; it
\* never returns.
C3_FailsFast ==
    (pc \in {"raised", "returned"} /\ ~IsValid(args)) =>
        /\ pc = "raised"
        /\ assigned \subseteq {"tic"}
        /\ draws = <<>>
        /\ printed = <<>> /\ plotted = <<>>

\* C4: when the recursion starts, and from then to the end of the call, the
\* three matrices have been drawn in the order Z1, Poisson, Z2.
C4_OrderAsStated ==
    (pc = "for" \/ AfterLoop) => draws = <<"Z_1", "Poisson", "Z_2">>

\* The names whose values a finished call has shown: printed, plotted or
\* returned.
Exposed ==
    {printed[k].name : k \in DOMAIN printed}
        \cup {plotted[k].name : k \in DOMAIN plotted}
        \cup {name \in assigned : result # None /\ name \in DOMAIN result}

\* C5: a call that completes has exposed the path matrix, the seven
\* empirical statistics and the theoretical moments M and V.
C5_AllExposed ==
    pc = "returned" =>
        {"simulated_paths", "mean_jump", "var_jump", "std_jump", "skew_jump",
         "kurt_jump", "ci_low", "ci_high", "M", "V"} \subseteq Exposed

\* C6: the path matrix has Nsim rows and Nsteps+1 columns; during the loop
\* the columns 1..i have been assigned once each and the others not yet;
\* after the loop exactly Nsteps steps have run, every column has been
\* assigned exactly once, no cell is the preallocated zero, and column c+1
\* is column c times the exponential of the draws of step c.
C6_Recursion ==
    (args.Nsim >= 1 /\ args.Nsteps >= 1 /\ AfterColumn0) =>
        /\ DOMAIN simulated_paths = 0..(args.Nsim - 1)
        /\ \A r \in DOMAIN simulated_paths :
              DOMAIN simulated_paths[r] = 0..args.Nsteps
        /\ pc = "for" =>
              /\ i <= args.Nsteps
              /\ \A c \in 1..args.Nsteps :
                    writes[c] = IF c <= i THEN 1 ELSE 0
        /\ AfterLoop =>
              /\ i = args.Nsteps
              /\ \A c \in 0..args.Nsteps : writes[c] = 1
              /\ \A r \in DOMAIN simulated_paths :
                    \A c \in 0..(args.Nsteps - 1) :
                        /\ simulated_paths[r][c + 1] # ZeroCell
                        /\ simulated_paths[r][c + 1] =
                              TimesExp(simulated_paths[r][c],
                                  StepExponent(args, Delta_t, Z_1[r][c],
                                               Poisson[r][c], Z_2[r][c]))

\* C6's case: a one-step call of two paths has left its loop with a second
\* column that differs from the first.
C6_Witness ==
    /\ pc = "statistics" /\ args.Nsteps = 1 /\ args.Nsim = 2
    /\ simulated_paths[0][1] # simulated_paths[0][0]
    /\ simulated_paths[1][1] # simulated_paths[0][1]


\* C2: when a call returns and the caller holds the path matrix of an
\* earlier call with the same parameters and the same seed (not None), the
\* two path matrices are equal, whatever calls, draws and seedings came
\* before or between the two.
C2_SameSeedSamePaths ==
    pc = "returned" =>
        \A m \in memo : m.args = args => m.paths = simulated_paths

\* C2's case: a seeded call of two paths and two steps returns, the caller
\* holds the matrix of an earlier call with the same arguments, and just
\* before this call the generator was on the stream of another seed.
C2_Witness ==
    /\ pc = "returned" /\ args.Nsim = 2 /\ args.Nsteps = 2
    /\ memo # {} /\ \A m \in memo : m.args = args
    /\ snap # {} /\ \A g \in snap : g.key # args.seed[1] /\ g.pos > 0

\* C10: the state of the process-wide generator when a call returns is the
\* state the caller read just before the call.
C10_GeneratorUntouched ==
    (pc = "returned" /\ snap # {}) => snap = {rng}

\* C7: with mu = 0, sigma = 0 and Lambda = 0, every cell of the columns
\* 0..i of the path matrix is the initial price S after each recursion
\* step, and after the loop these are all Nsteps+1 columns.
C7_ConstantPaths ==
    (args.mu = 0 /\ args.sigma = 0 /\ args.Lambda = 0
        /\ (pc = "for" \/ AfterLoop)) =>
        /\ \A r \in DOMAIN simulated_paths :
              \A c \in 0..i : simulated_paths[r][c] = Cell(args.S, 0)
        /\ AfterLoop => i = args.Nsteps

\* C7's case: the example S=1, Nsteps=10, Nsim=5, seed=42 has returned,
\* with a # 0, b # 0 and non-zero draws in Z_1 and Z_2, and all 11 columns
\* of all 5 rows are 1.0.
C7_Witness ==
    /\ pc = "returned"
    /\ args.S = 1 /\ args.Nsteps = 10 /\ args.Nsim = 5 /\ args.seed = <<42>>
    /\ args.mu = 0 /\ args.sigma = 0 /\ args.Lambda = 0
    /\ args.a # 0 /\ args.b # 0
    /\ \E r \in 0..4 : \E c \in 0..9 : Z_1[r][c] # 0
    /\ \E r \in 0..4 : \E c \in 0..9 : Z_2[r][c] # 0
    /\ \A r \in 0..4 : \A c \in 0..10 : simulated_paths[r][c] = Cell(1, 0)

\* Twice the diffusion part of the exponent of step c in row r:
\* (mu - sigma^2/2)*Delta_t + sigma*sqrt(Delta_t)*Z1[r,c]
C9_Diffusion(r, c) ==
    (2 * args.mu - args.sigma * args.sigma) * Delta_t
        + 2 * args.sigma * Sqrt(Delta_t) * Z_1[r][c]

\* C9: the recursion run with Z_2b, which differs from Z_2 only in cells
\* where Poisson is 0 (anywhere when b = 0), gives the same path matrix as
\* the recursion run with Z_2; a step with Poisson = 0 multiplies by the
\* pure diffusion factor; and with b = 0 the jump term of a step's exponent
\* is a*Poisson.
C9_JumpSizeOnlyWithJumps ==
    pc = "for" =>
        /\ (\A r \in DOMAIN Z_2 : \A c \in DOMAIN Z_2[r] :
               Z_2b[r][c] # Z_2[r][c] => (Poisson[r][c] = 0 \/ args.b = 0))
            => shadow_paths = simulated_paths
        /\ \A r \in DOMAIN simulated_paths : \A c \in 0..(i - 1) :
              LET prev == simulated_paths[r][c]
                  next == simulated_paths[r][c + 1]
              IN  /\ Poisson[r][c] = 0 =>
                        next = Cell(prev.base, prev.hexp + C9_Diffusion(r, c))
                  /\ args.b = 0 =>
                        next = Cell(prev.base,
                                    prev.hexp + C9_Diffusion(r, c)
                                        + 2 * args.a * Poisson[r][c])

\* C9's case: both steps of a two-step recursion with b # 0 are done, and
\* in one row the two jump-size matrices differ at a step without jumps
\* while the other step has jumps.
C9_Witness ==
    /\ pc = "for" /\ i = 2 /\ args.Nsteps = 2 /\ args.b # 0
    /\ \E r \in DOMAIN Z_2 : \E c, d \in 0..1 :
          /\ Poisson[r][c] = 0 /\ Z_2b[r][c] # Z_2[r][c]
          /\ Poisson[r][d] > 0 /\ Z_2[r][d] # 0

\* The population variance of the prices xs: sum(x^2)/n - (sum(x)/n)^2
C8_PopulationVariance(xs) ==
    LET n == Cardinality(DOMAIN xs)
        squares == [r \in DOMAIN xs |-> PMul(xs[r], xs[r])]
        total == PSum(xs, DOMAIN xs)
    IN  Quot(PAdd(PScale(PSum(squares, DOMAIN xs), n),
                  PScale(PMul(total, total), -1)), n * n)

\* k * z * sqrt(v / n) for the quantile z of 1 - alpha/2, alpha in
\* hundredths and in (0, 1)
C8_ScaledHalfWidth(k, v, n, alpha) ==
    IF v = QZero THEN StatExact(QZero)
    ELSE Stat(QZero, 1, Quot(PScale(v.num, k * k), v.den * n), 1,
              Rat(200 - alpha, 200))

\* x - y for two statistics with the same square root and quantile
C8_Difference(x, y) ==
    LET k == x.sgn - y.sgn
        root == IF x.sgn # 0 THEN x ELSE y
    IN  IF k = 0 THEN StatExact(QSub(x.rat, y.rat))
        ELSE Stat(QSub(x.rat, y.rat), Sign(k), QScale(root.rad, RInt(k * k)),
                  root.zfac, root.p)

\* C8: for alpha in (0,1) and Nsim >= 2, with mean the mean of the terminal
\* prices, std their population standard deviation and z the (1 - alpha/2)
\* quantile: ci_low = mean - z*std/sqrt(Nsim), ci_high = mean +
\* z*std/sqrt(Nsim), so that ci_high - ci_low = 2*z*std/sqrt(Nsim) and
\* ci_low <= mean <= ci_high.
C8_Interval ==
    (pc \in {"print", "plot", "toc", "returned"} /\ args.Nsim >= 2
        /\ 0 < args.alpha /\ args.alpha < 100
        /\ \A r \in DOMAIN final_prices : final_prices[r].kind = "num") =>
        LET xs == [r \in DOMAIN final_prices |->
                      {Term(final_prices[r].hexp, final_prices[r].base)}]
            mean == Quot(PSum(xs, DOMAIN xs), args.Nsim)
            v == C8_PopulationVariance(xs)
            half == C8_ScaledHalfWidth(1, v, args.Nsim, args.alpha)
            width == C8_ScaledHalfWidth(2, v, args.Nsim, args.alpha)
        IN  /\ ci_low = [half EXCEPT !.rat = mean, !.sgn = -half.sgn]
            /\ ci_high = [half EXCEPT !.rat = mean]
            /\ C8_Difference(ci_high, ci_low) = width
            \* ci_low <= mean <= ci_high
            /\ ci_low.rat = mean /\ ci_low.sgn <= 0
            /\ ci_high.rat = mean /\ ci_high.sgn >= 0

\* C8's case: a call of at least two paths with alpha = 0.05 has computed
\* the interval of terminal prices that are not all equal.
C8_Witness ==
    /\ pc = "returned" /\ args.Nsim >= 2 /\ args.alpha = 5
    /\ \E r \in DOMAIN final_prices : final_prices[r] # final_prices[0]
    /\ ci_low # ci_high /\ ci_high.zfac = 1

============================================================================
